---- MODULE Spec2Model ----
(***************************************************************************)
(* Model of the C boundary function optimize_png (src/oxi/src/lib.rs).     *)
(*                                                                         *)
(* Each thread of the foreign caller runs calls of optimize_png one after  *)
(* the other; calls of different threads interleave statement by           *)
(* statement. The foreign heap (malloc/free) is the only state the calls   *)
(* share. The delegated optimizer (oxipng) and the foreign allocator are   *)
(* external: each is modelled by the set of results it may hand back.      *)
(***************************************************************************)
EXTENDS Integers, Sequences, FiniteSets, Bags

\* ---------------------------------------------------------------- bounds
NumThreads == 2      \* caller threads
MaxLen == 2          \* longest optimizer output, in bytes
HeapSize == 2        \* addresses the foreign allocator can hand out

Threads == 1..NumThreads
Addrs == 1..HeapSize

\* the null pointer (std::ptr::null_mut(), malloc's failure result)
NULL == 0
\* content of a malloc'ed byte that was never written
UNINIT == -1

\* ------------------------------------------------- the caller's inputs
\* The eight bytes every PNG file starts with; the optimizer rejects an
\* input that does not start with them.
PNG_SIGNATURE == <<137, 80, 78, 71, 13, 10, 26, 10>>

EmptyInput == << >>
Garbage10 == <<0, 1, 2, 3, 4, 5, 6, 7, 8, 9>>
SomePNG == PNG_SIGNATURE \o <<0>>
Inputs == {EmptyInput, Garbage10, SomePNG}

HasSignature(bytes) ==
    /\ Len(bytes) >= Len(PNG_SIGNATURE)
    /\ SubSeq(bytes, 1, Len(PNG_SIGNATURE)) = PNG_SIGNATURE

\* ---------------------------------------------------------- the types
\* struct CompressedPNG { data, size }
CompressedPNG(data, size) == [data |-> data, size |-> size]

\* no descriptor (the caller holds no return value)
NoDescriptor == CompressedPNG(NULL, -1)

\* &[u8] built by from_raw_parts: the caller's buffer `buf`, `size` bytes
Slice(buf, size) == [buf |-> buf, size |-> size]
NoSlice == Slice(0, 0)

\* Result<Vec<u8>, PngError>
Ok(bytes) == [ok |-> TRUE, bytes |-> bytes]
Err == [ok |-> FALSE, bytes |-> << >>]

\* The byte sequences the optimizer may produce: one of every length
\* 0..MaxLen, its bytes all different so that a misplaced byte shows.
OutputOfLen(n) == [i \in 1..n |-> i]
Outputs == {OutputOfLen(n) : n \in 0..MaxLen}

\* a block of the foreign heap
FreeBlock == [live |-> FALSE, bytes |-> << >>]
FreshBlock(n) == [live |-> TRUE, bytes |-> [i \in 1..n |-> UNINIT]]

VARIABLES
    optimized,   \* the optimizer as a function: PNG input -> optimized bytes
    pc,          \* where each thread is
    inbuf,       \* the caller's input buffer of each thread
    data_slice,  \* local data_slice of the running call
    png,         \* local: the optimizer's result
    compressed,  \* local: the descriptor under construction
    copied,      \* bytes copy_nonoverlapping has written so far
    result,      \* the descriptor the call returned to the caller
    heap,        \* the foreign heap: address -> block
    owned,       \* bag of result addresses the caller holds and has not freed
    given,       \* history: the bytes the caller passed to the running call
    path,        \* history: the places the running call went through
    produced,    \* history: the optimizer results of the running call, in order
    mallocRet,   \* history: what malloc returned in the running call, in order
    mallocFailed,\* history: malloc reported failure in the running call
    nullWrite    \* some copy wrote through a null destination

vars == <<optimized, pc, inbuf, data_slice, png, compressed, copied, result, heap, owned,
          given, path, produced, mallocRet, mallocFailed, nullWrite>>

locals == <<data_slice, png, compressed, copied>>
history == <<given, produced, mallocRet, mallocFailed>>

PngInputs == {i \in Inputs : HasSignature(i)}

Init ==
    /\ optimized \in [PngInputs -> Outputs]
    /\ pc = [t \in Threads |-> "Idle"]
    /\ inbuf = [t \in Threads |-> << >>]
    /\ data_slice = [t \in Threads |-> NoSlice]
    /\ png = [t \in Threads |-> Err]
    /\ compressed = [t \in Threads |-> NoDescriptor]
    /\ copied = [t \in Threads |-> 0]
    /\ result = [t \in Threads |-> NoDescriptor]
    /\ heap = [a \in Addrs |-> FreeBlock]
    /\ owned = EmptyBag
    /\ given = [t \in Threads |-> << >>]
    /\ path = [t \in Threads |-> << >>]
    /\ produced = [t \in Threads |-> << >>]
    /\ mallocRet = [t \in Threads |-> << >>]
    /\ mallocFailed = [t \in Threads |-> FALSE]
    /\ nullWrite = FALSE

\* thread t moves on to place p
Goto(t, p) ==
    /\ pc' = [pc EXCEPT ![t] = p]
    /\ path' = [path EXCEPT ![t] = Append(@, p)]

\* ------------------------------------------------ external collaborators
\* oxipng::optimize_from_memory: an input without the PNG signature is
\* rejected; any other input is optimized to the byte sequence the
\* optimizer computes for it, unless the optimizer fails on the way
\* (decoding error, resource exhaustion).
optimize_from_memory(bytes) ==
    IF HasSignature(bytes) THEN {Err, Ok(optimized[bytes])} ELSE {Err}

\* the bytes a slice reads
ReadSlice(s) == SubSeq(inbuf[s.buf], 1, s.size)

FreeAddrs == {a \in Addrs : ~heap[a].live}

\* libc::malloc(n): what it may return, and whether that is a failure.
\* It fails with NULL, or returns a block no live allocation uses; for n = 0
\* the C library may also return NULL without any failure.
MallocOutcomes(n) ==
    {[addr |-> NULL, failed |-> TRUE]}
      \cup {[addr |-> a, failed |-> FALSE] : a \in FreeAddrs}
      \cup (IF n = 0 THEN {[addr |-> NULL, failed |-> FALSE]} ELSE {})

\* ------------------------------------------------------ the caller
\* The caller fills its input buffer and calls optimize_png(data, size).
Call(t) ==
    /\ pc[t] = "Idle"
    /\ \E input \in Inputs :
         /\ inbuf' = [inbuf EXCEPT ![t] = input]
         /\ given' = [given EXCEPT ![t] = input]
    /\ pc' = [pc EXCEPT ![t] = "Start"]
    /\ path' = [path EXCEPT ![t] = <<"Start">>]
    /\ UNCHANGED <<optimized, locals, result, heap, owned, produced, mallocRet,
                   mallocFailed, nullWrite>>

\* The caller takes the returned descriptor; a non-null address is now its
\* to free.
TakeResult(t) ==
    /\ pc[t] = "Returned"
    /\ owned' = IF result[t].data # NULL
                THEN owned (+) SetToBag({result[t].data})
                ELSE owned
    /\ result' = [result EXCEPT ![t] = NoDescriptor]
    /\ inbuf' = [inbuf EXCEPT ![t] = << >>]
    /\ given' = [given EXCEPT ![t] = << >>]
    /\ path' = [path EXCEPT ![t] = << >>]
    /\ produced' = [produced EXCEPT ![t] = << >>]
    /\ mallocRet' = [mallocRet EXCEPT ![t] = << >>]
    /\ mallocFailed' = [mallocFailed EXCEPT ![t] = FALSE]
    /\ pc' = [pc EXCEPT ![t] = "Idle"]
    /\ UNCHANGED <<optimized, locals, heap, nullWrite>>

\* The caller frees a result buffer with C's free.
Free(a) ==
    /\ BagIn(a, owned)
    /\ owned' = owned (-) SetToBag({a})
    /\ heap' = [heap EXCEPT ![a] = FreeBlock]
    /\ UNCHANGED <<optimized, pc, path, inbuf, locals, result, history, nullWrite>>

\* ------------------------------------------------------ optimize_png
\* let data_slice = from_raw_parts(data, size)
BindInput(t) ==
    /\ pc[t] = "Start"
    /\ data_slice' = [data_slice EXCEPT ![t] = Slice(t, Len(inbuf[t]))]
    /\ Goto(t, "InputBound")
    /\ UNCHANGED <<optimized, inbuf, png, compressed, copied, result, heap, owned,
                   history, nullWrite>>

\* (mutant) the error is ignored: every result takes the success branch
Branch_ignoresError(r) == "Optimized"

\* if let Ok(png) = ... { ... } else { ... }: the branch taken
Branch(r) == IF r.ok THEN "Optimized" ELSE "Failed"

\* if let Ok(png) = optimize_from_memory(data_slice, &options)
Optimize(t) ==
    /\ pc[t] = "InputBound"
    /\ \E r \in optimize_from_memory(ReadSlice(data_slice[t])) :
         /\ png' = [png EXCEPT ![t] = r]
         /\ produced' = [produced EXCEPT ![t] = Append(@, r)]
         /\ Goto(t, Branch(r))
    /\ UNCHANGED <<optimized, inbuf, data_slice, compressed, copied, result, heap,
                   owned, given, mallocRet, mallocFailed, nullWrite>>

\* the heap after malloc returned addr for n bytes
HeapAfterMalloc(addr, n) ==
    IF addr = NULL THEN heap ELSE [heap EXCEPT ![addr] = FreshBlock(n)]

\* let compressed = CompressedPNG { data: malloc(png.len()), size: png.len() }
Malloc(t) ==
    /\ pc[t] = "Optimized"
    /\ \E m \in MallocOutcomes(Len(png[t].bytes)) :
         /\ heap' = HeapAfterMalloc(m.addr, Len(png[t].bytes))
         /\ compressed' = [compressed EXCEPT ![t] = CompressedPNG(m.addr, Len(png[t].bytes))]
         /\ mallocRet' = [mallocRet EXCEPT ![t] = Append(@, m.addr)]
         /\ mallocFailed' = [mallocFailed EXCEPT ![t] = m.failed]
    /\ copied' = [copied EXCEPT ![t] = 0]
    /\ Goto(t, "Allocated")
    /\ UNCHANGED <<optimized, inbuf, data_slice, png, result, owned, given, produced,
                   nullWrite>>

\* (mutant) the null check is missing
CopyGuard_always(c) == TRUE

\* if !compressed.data.is_null()
CopyGuard(c) == c.data # NULL

\* (mutant) the descriptor under construction is one static shared by all calls
CopyDst_shared(t) == compressed[1].data

\* (mutant) the copy stops one byte short
CopyCount_offByOne(t) == IF Len(png[t].bytes) = 0 THEN 0 ELSE Len(png[t].bytes) - 1

\* copy_nonoverlapping's arguments: destination and count
CopyDst(t) == compressed[t].data
CopyCount(t) == Len(png[t].bytes)

\* copy_nonoverlapping(png.as_ptr(), compressed.data, png.len()), one byte
\* at a time
CopyByte(t) ==
    /\ pc[t] = "Allocated"
    /\ CopyGuard(compressed[t])
    /\ copied[t] < CopyCount(t)
    /\ LET i == copied[t] + 1
           dst == CopyDst(t)
       IN  IF dst = NULL
           THEN /\ nullWrite' = TRUE
                /\ heap' = heap
           ELSE /\ heap' = [heap EXCEPT ![dst].bytes[i] = png[t].bytes[i]]
                /\ nullWrite' = nullWrite
    /\ copied' = [copied EXCEPT ![t] = @ + 1]
    /\ UNCHANGED <<optimized, pc, path, inbuf, data_slice, png, compressed, result,
                   owned, history>>

\* the if statement is over: the copy ran to its end, or was skipped
CopyDone(t) ==
    /\ pc[t] = "Allocated"
    /\ CopyGuard(compressed[t]) => copied[t] >= CopyCount(t)
    /\ Goto(t, "Copied")
    /\ UNCHANGED <<optimized, inbuf, locals, result, heap, owned, history, nullWrite>>

\* (mutant) an empty result is reported as a failure, its block forgotten
ReturnValue_emptyIsNull(c) == IF c.size = 0 THEN CompressedPNG(NULL, 0) ELSE c

\* the value of the block's last expression: compressed
ReturnValue(c) == c

\* (mutant) the descriptor's buffer is released when the call's locals go
HeapAfterDrop_frees(t) ==
    IF compressed[t].data = NULL THEN heap
    ELSE [heap EXCEPT ![compressed[t].data] = FreeBlock]

\* The locals go out of scope: the slice ends, the Vec png is dropped.
\* CompressedPNG has no destructor, so the foreign heap is left as it is.
HeapAfterDrop(t) == heap

\* (mutant) the locals are statics: they keep their values between calls
DropLocals_static(t) ==
    /\ UNCHANGED <<data_slice, png, compressed, copied>>
    /\ heap' = HeapAfterDrop(t)

DropLocals(t) ==
    /\ data_slice' = [data_slice EXCEPT ![t] = NoSlice]
    /\ png' = [png EXCEPT ![t] = Err]
    /\ compressed' = [compressed EXCEPT ![t] = NoDescriptor]
    /\ copied' = [copied EXCEPT ![t] = 0]
    /\ heap' = HeapAfterDrop(t)

\* compressed (the success branch returns)
Return(t) ==
    /\ pc[t] = "Copied"
    /\ result' = [result EXCEPT ![t] = ReturnValue(compressed[t])]
    /\ DropLocals(t)
    /\ Goto(t, "Returned")
    /\ UNCHANGED <<optimized, inbuf, owned, history, nullWrite>>

\* CompressedPNG { data: null_mut(), size: 0 }
FailureDescriptor == CompressedPNG(NULL, 0)

\* else { CompressedPNG { data: null_mut(), size: 0 } }
FailReturn(t) ==
    /\ pc[t] = "Failed"
    /\ result' = [result EXCEPT ![t] = FailureDescriptor]
    /\ DropLocals(t)
    /\ Goto(t, "Returned")
    /\ UNCHANGED <<optimized, inbuf, owned, history, nullWrite>>

Next ==
    \/ \E t \in Threads : Call(t)
    \/ \E t \in Threads : BindInput(t)
    \/ \E t \in Threads : Optimize(t)
    \/ \E t \in Threads : Malloc(t)
    \/ \E t \in Threads : CopyByte(t)
    \/ \E t \in Threads : CopyDone(t)
    \/ \E t \in Threads : Return(t)
    \/ \E t \in Threads : FailReturn(t)
    \/ \E t \in Threads : TakeResult(t)
    \/ \E a \in Addrs : Free(a)

Spec == Init /\ [][Next]_vars

\* ============================================================ properties
Returned(t) == pc[t] = "Returned"

\* the sentinel descriptor (null, 0)
NullDescriptor == CompressedPNG(NULL, 0)

\* the optimizer's result in the running call of t (it has been invoked)
Outcome(t) == produced[t][Len(produced[t])]
OptimizerRan(t) == produced[t] # << >>
OptimizerFailed(t) == OptimizerRan(t) /\ ~Outcome(t).ok
OptimizerSucceeded(t) == OptimizerRan(t) /\ Outcome(t).ok

\* the non-null addresses malloc returned in the running call of t
Allocations(t) == {mallocRet[t][i] : i \in 1..Len(mallocRet[t])} \ {NULL}

LiveAddrs == {a \in Addrs : heap[a].live}
Initialized(a) == \A i \in 1..Len(heap[a].bytes) : heap[a].bytes[i] # UNINIT

\* d describes a live foreign buffer of d.size initialized bytes
ValidOwnedBuffer(d) ==
    /\ d.data \in LiveAddrs
    /\ Len(heap[d.data].bytes) = d.size
    /\ Initialized(d.data)

\* the address a running or returned call of t accounts for
Held(t) ==
    IF pc[t] \in {"Allocated", "Copied"} THEN {compressed[t].data} \ {NULL}
    ELSE IF Returned(t) THEN {result[t].data} \ {NULL}
    ELSE {}

\* ---------------------------------------------------------------------
\* C1: every returned descriptor is either (non-null address, N) of a
\* valid owned buffer, or exactly (null, 0); in particular so when the
\* optimizer succeeded and the allocation of N > 0 bytes failed.
C1_ValidBufferOrNullZero ==
    \A t \in Threads :
        Returned(t) =>
            \/ result[t] = NullDescriptor
            \/ result[t].data # NULL /\ ValidOwnedBuffer(result[t])

\* ---------------------------------------------------------------------
\* C2: whenever the optimizer fails (as it does on the empty input and on
\* ten bytes without the PNG signature), the call returns (null, 0) and
\* never invokes the foreign allocator.
C2_FailureIsNullWithoutMalloc ==
    \A t \in Threads :
        /\ OptimizerFailed(t) => mallocRet[t] = << >>
        /\ Returned(t) /\ OptimizerFailed(t) => result[t] = NullDescriptor
        /\ Returned(t) /\ given[t] \in {EmptyInput, Garbage10} => OptimizerFailed(t)

C2_Witness ==
    /\ Returned(1) /\ given[1] = EmptyInput /\ result[1] = NullDescriptor
    /\ Returned(2) /\ given[2] = Garbage10 /\ result[2] = NullDescriptor

\* ---------------------------------------------------------------------
\* C3: a returned non-null address is the block malloc returned in this
\* call, of exactly result.size bytes; result.size is the length of the
\* optimizer's output and every byte equals the output's byte.
C3_ExactLengthAndContent ==
    \A t \in Threads :
        Returned(t) /\ result[t].data # NULL =>
            /\ mallocRet[t] = <<result[t].data>>
            /\ result[t].data \in LiveAddrs
            /\ OptimizerSucceeded(t)
            /\ result[t].size = Len(Outcome(t).bytes)
            /\ heap[result[t].data].bytes = Outcome(t).bytes

C3_Witness ==
    \E t \in Threads :
        /\ Returned(t) /\ result[t].data # NULL
        /\ result[t].size = MaxLen
        /\ heap[result[t].data].bytes = optimized[SomePNG]

\* ---------------------------------------------------------------------
\* C4: a call that returns a null address leaves no foreign allocation of
\* its own behind, on the optimizer-failure and the allocation-failure path.
C4_NullLeavesNoAllocation ==
    \A t \in Threads :
        Returned(t) /\ result[t].data = NULL =>
            /\ Allocations(t) = {}
            /\ LiveAddrs = BagToSet(owned) \cup UNION {Held(u) : u \in Threads \ {t}}

C4_Witness ==
    /\ Returned(1) /\ result[1].data = NULL /\ OptimizerFailed(1)
    /\ Returned(2) /\ result[2].data = NULL /\ OptimizerSucceeded(2)
    /\ Len(Outcome(2).bytes) > 0

\* ---------------------------------------------------------------------
\* C5: a null address is returned only when the optimizer failed or the
\* foreign allocation failed, never after a success, N = 0 included.
C5_NullImpliesFailure ==
    \A t \in Threads :
        Returned(t) /\ result[t].data = NULL => OptimizerFailed(t) \/ mallocFailed[t]

\* ---------------------------------------------------------------------
\* C6: under any interleaving each call returns what it would return
\* alone on its input; result buffers of distinct calls are disjoint and
\* no call writes into another call's buffer.
AloneResults(input) ==
    IF HasSignature(input)
    THEN {NullDescriptor}
           \cup {CompressedPNG(a, Len(optimized[input])) : a \in Addrs \cup {NULL}}
    ELSE {NullDescriptor}

\* the bytes of t's buffer so far: its own copy's prefix, nothing else
OwnBytesOnly(t, a) ==
    LET n == Len(Outcome(t).bytes)
        done == IF pc[t] = "Allocated" THEN copied[t] ELSE n
    IN  /\ heap[a].live
        /\ Len(heap[a].bytes) = n
        /\ \A i \in 1..n :
             heap[a].bytes[i] = IF i <= done THEN optimized[given[t]][i] ELSE UNINIT

C6_ConcurrentIndependence ==
    /\ \A t \in Threads :
         /\ Returned(t) => result[t] \in AloneResults(given[t])
         /\ \A a \in Held(t) : OwnBytesOnly(t, a) /\ ~BagIn(a, owned)
    /\ \A t, u \in Threads : t # u => Held(t) \cap Held(u) = {}

C6_Witness ==
    /\ pc[1] = "Allocated" /\ Held(1) # {} /\ copied[1] = 1 /\ Len(png[1].bytes) = MaxLen
    /\ pc[2] = "Allocated" /\ Held(2) # {} /\ copied[2] = 1

\* ---------------------------------------------------------------------
\* C7: a call on a malformed input returns (null, 0) whatever calls came
\* before it; a call starts with every local in its initial state.
FreshLocals(t) ==
    /\ data_slice[t] = NoSlice
    /\ png[t] = Err
    /\ compressed[t] = NoDescriptor
    /\ copied[t] = 0

C7_MalformedAlwaysNull ==
    \A t \in Threads :
        /\ Returned(t) /\ ~HasSignature(given[t]) => result[t] = NullDescriptor
        /\ pc[t] \in {"Idle", "Start"} => FreshLocals(t)

C7_Witness ==
    \E t \in Threads :
        /\ Returned(t) /\ given[t] = Garbage10 /\ result[t] = NullDescriptor
        /\ BagCardinality(owned) = HeapSize

\* ---------------------------------------------------------------------
\* C8: bytes are copied only after malloc returned a non-null address,
\* never to a null destination, and a non-null address is returned only
\* after all N bytes were copied.
C8_CopyAfterAllocation ==
    /\ ~nullWrite
    /\ \A t \in Threads :
         /\ copied[t] > 0 =>
              compressed[t].data # NULL /\ mallocRet[t] = <<compressed[t].data>>
         /\ pc[t] = "Copied" /\ compressed[t].data # NULL => copied[t] = compressed[t].size
         /\ Returned(t) /\ result[t].data # NULL =>
              /\ Len(heap[result[t].data].bytes) = result[t].size
              /\ Initialized(result[t].data)

C8_Witness ==
    \E t \in Threads :
        /\ pc[t] = "Allocated"
        /\ 0 < copied[t] /\ copied[t] < compressed[t].size
        /\ heap[compressed[t].data].bytes[compressed[t].size] = UNINIT

\* ---------------------------------------------------------------------
\* C9: a call goes Start, InputBound, then Optimized or Failed, then
\* Marshaled or NullDescriptor, then Returned; the optimizer runs once,
\* malloc at most once and only after Optimized; nothing is retried; a
\* returned call has exactly one of the outcomes Marshaled, NullDescriptor.
SuccessPath == <<"Start", "InputBound", "Optimized", "Allocated", "Copied", "Returned">>
FailurePath == <<"Start", "InputBound", "Failed", "Returned">>

IsPrefix(s, full) == Len(s) <= Len(full) /\ s = SubSeq(full, 1, Len(s))
Visited(t, p) == \E i \in 1..Len(path[t]) : path[t][i] = p

\* the order of the steps and the number of calls to the collaborators
CallOrder ==
    \A t \in Threads :
        /\ IsPrefix(path[t], SuccessPath) \/ IsPrefix(path[t], FailurePath)
        /\ pc[t] = (IF path[t] = << >> THEN "Idle" ELSE path[t][Len(path[t])])
        /\ Len(produced[t]) = (IF Visited(t, "Optimized") \/ Visited(t, "Failed") THEN 1 ELSE 0)
        /\ Len(mallocRet[t]) = (IF Visited(t, "Allocated") THEN 1 ELSE 0)
        /\ Visited(t, "Optimized") <=> OptimizerSucceeded(t)

\* the two outcomes of a returned call
Marshaled(t) == result[t].data # NULL /\ ValidOwnedBuffer(result[t])
NullOutcome(t) == result[t] = NullDescriptor

C9_PerCallStateMachine ==
    /\ CallOrder
    /\ \A t \in Threads : Returned(t) => (Marshaled(t) /\ ~NullOutcome(t)) \/ (NullOutcome(t) /\ ~Marshaled(t))

\* ---------------------------------------------------------------------
\* C10: a call never writes the caller's input, keeps no view of it past
\* the return and frees nothing: the live foreign allocations are exactly
\* the result buffers handed out and not yet freed by the caller.
C10_OnlyResultBufferLeftBehind ==
    /\ \A t \in Threads :
         /\ inbuf[t] = given[t]
         /\ pc[t] \in {"Idle", "Returned"} => data_slice[t] = NoSlice
    /\ LiveAddrs = BagToSet(owned) \cup UNION {Held(t) : t \in Threads}
    /\ Cardinality(LiveAddrs) =
         BagCardinality(owned) + Cardinality({t \in Threads : Held(t) # {}})

C10_Witness ==
    /\ \A t \in Threads : pc[t] = "Idle"
    /\ BagCardinality(owned) = HeapSize
    /\ LiveAddrs = Addrs

====
